---- MODULE Spec2Model ----
(***************************************************************************)
(* A model of the Python FastAPI generator of jhin                          *)
(* (src/generators/python-fastapi.ts, kept here as src/unnamed/part_001).   *)
(*                                                                          *)
(* Strings are sequences of one-character strings, so that the character    *)
(* level operations of the code (regex replace, split, toLowerCase, the     *)
(* array-index test that decides the key order of a JavaScript object) are  *)
(* computed and not assumed.  A JavaScript object is a sequence of          *)
(* <<key, value>> pairs in its own-property order.                          *)
(*                                                                          *)
(* Four specifications share the definitions:                               *)
(*   SpecSanitize  sanitizeName applied once and twice to a bounded input   *)
(*   SpecMerge     mergeComplexSchema applied to a bounded schema node      *)
(*   SpecGroup     the pathsByTag loop applied to a bounded paths mapping   *)
(*   Spec          one run of pythonFastApiGenerator.generate               *)
(***************************************************************************)
EXTENDS Integers, Sequences, FiniteSets, TLC

VARIABLES
  pc,          \* position of the specification's process
  name,        \* SpecSanitize: the argument of sanitizeName
  safeName,    \* SpecSanitize: sanitizeName(name)
  safeAgain,   \* SpecSanitize: sanitizeName(sanitizeName(name))
  schema,      \* SpecMerge: the raw schema node given to mergeComplexSchema
  resolved,    \* SpecMerge: mergeComplexSchema(schema, components)
  regrouped,   \* SpecMerge: the same allOf list resolved as [first, merge of the rest]
  components,  \* SpecMerge: the schemas of the API description, by name
  api,         \* SpecGroup, Spec: the parsed API description given to generate
  pathsByTag,  \* SpecGroup, Spec: the operation groups formed
  rejection,   \* SpecGroup, Spec: the error thrown, NoError while there is none
  templates,   \* Spec: the names of the templates loadTemplates returned
  files,       \* Spec: the writeFileSync calls that succeeded, in order
  diag,        \* Spec: the logMessage calls of level INFO, WARN and ERROR, in order
  cursor,      \* Spec: the position of the schema loop or of the route loop
  entity,      \* SpecProps: the name and the resolved schema of an entity with properties
  processed    \* SpecProps: its processed properties, created enums and imports

sanitizeVars == <<name, safeName, safeAgain>>
mergeVars == <<schema, resolved, regrouped, components>>
groupVars == <<api, pathsByTag, rejection>>
runVars == <<templates, files, diag, cursor>>
propVars == <<entity, processed>>
vars == <<pc, name, safeName, safeAgain, schema, resolved, regrouped, components, api, pathsByTag, rejection,
          templates, files, diag, cursor, entity, processed>>

(***************************************************************************)
(* Bounds of the model.                                                     *)
(***************************************************************************)
MaxLen == 3

(***************************************************************************)
(* Characters and strings.                                                  *)
(***************************************************************************)
LowerSeq ==
  <<"a","b","c","d","e","f","g","h","i","j","k","l","m","n","o","p","q","r","s","t","u","v","w","x","y","z">>
UpperSeq ==
  <<"A","B","C","D","E","F","G","H","I","J","K","L","M","N","O","P","Q","R","S","T","U","V","W","X","Y","Z">>
DigitSeq ==
  <<"0","1","2","3","4","5","6","7","8","9">>

Range(s) == {s[i] : i \in DOMAIN s}

IsDigit(c) == c \in Range(DigitSeq)

\* \w of a JavaScript regular expression without the u and i flags: [A-Za-z0-9_]
IsWordChar(c) == c \in Range(LowerSeq) \cup Range(UpperSeq) \cup Range(DigitSeq) \cup {"_"}

\* String.prototype.toLowerCase on the characters the model uses
LowerChar(c) ==
  IF c \in Range(UpperSeq)
    THEN LowerSeq[CHOOSE i \in DOMAIN UpperSeq : UpperSeq[i] = c]
    ELSE c

toLowerCase(s) == [i \in DOMAIN s |-> LowerChar(s[i])]

\* every string over alphabet of length at most n
StringsUpTo(alphabet, n) == UNION {[1..k -> alphabet] : k \in 0..n}

(***************************************************************************)
(* NameSanitizer.                                                           *)
(***************************************************************************)
PYTHON_RESERVED_WORDS ==
  { <<"a","n","d">>,
    <<"a","s">>,
    <<"a","s","s","e","r","t">>,
    <<"b","r","e","a","k">>,
    <<"c","l","a","s","s">>,
    <<"c","o","n","t","i","n","u","e">>,
    <<"d","e","f">>,
    <<"d","e","l">>,
    <<"e","l","i","f">>,
    <<"e","l","s","e">>,
    <<"e","x","c","e","p","t">>,
    <<"F","a","l","s","e">>,
    <<"f","i","n","a","l","l","y">>,
    <<"f","o","r">>,
    <<"f","r","o","m">>,
    <<"g","l","o","b","a","l">>,
    <<"i","f">>,
    <<"i","m","p","o","r","t">>,
    <<"i","n">>,
    <<"i","s">>,
    <<"l","a","m","b","d","a">>,
    <<"N","o","n","e">>,
    <<"n","o","n","l","o","c","a","l">>,
    <<"n","o","t">>,
    <<"o","r">>,
    <<"p","a","s","s">>,
    <<"r","a","i","s","e">>,
    <<"r","e","t","u","r","n">>,
    <<"T","r","u","e">>,
    <<"t","r","y">>,
    <<"w","h","i","l","e">>,
    <<"w","i","t","h">>,
    <<"y","i","e","l","d">> }

\* name.replace(/[^\w]/g, '_')
replaceNonWord(s) == [i \in DOMAIN s |-> IF IsWordChar(s[i]) THEN s[i] ELSE "_"]

\* mutant of sanitizeName: the digit test lost its ^ anchor (/\d/ for /^\d/)
sanitizeName_unanchoredDigit(s) ==
  LET replaced == replaceNonWord(s)
      reserved == IF replaced \in PYTHON_RESERVED_WORDS THEN replaced \o <<"_">> ELSE replaced
  IN  IF \E i \in DOMAIN reserved : IsDigit(reserved[i])
        THEN <<"_">> \o reserved
        ELSE reserved

\* mutant of sanitizeName: the reserved-word test is dropped
sanitizeName_noReservedCheck(s) ==
  LET replaced == replaceNonWord(s)
  IN  IF Len(replaced) > 0 /\ IsDigit(replaced[1])
        THEN <<"_">> \o replaced
        ELSE replaced

sanitizeName(s) ==
  LET replaced == replaceNonWord(s)
      reserved == IF replaced \in PYTHON_RESERVED_WORDS THEN replaced \o <<"_">> ELSE replaced
  IN  IF Len(reserved) > 0 /\ IsDigit(reserved[1])
        THEN <<"_">> \o reserved
        ELSE reserved

(***************************************************************************)
(* SpecSanitize: sanitizeName on every string over SanitizeAlphabet of      *)
(* length at most MaxLen, applied once and then to its own result.          *)
(***************************************************************************)
\* letters that spell the reserved words as, is, if; a digit; the underscore;
\* two characters outside \w
SanitizeAlphabet == {"a", "s", "i", "f", "1", "_", "-", "/"}

InitSanitize ==
  /\ pc = "start"
  /\ name \in StringsUpTo(SanitizeAlphabet, MaxLen)
  /\ safeName = <<>>
  /\ safeAgain = <<>>
  /\ schema = <<>> /\ resolved = <<>> /\ regrouped = <<>> /\ components = <<>>
  /\ api = <<>> /\ pathsByTag = <<>> /\ rejection = <<>>
  /\ templates = {} /\ files = <<>> /\ diag = <<>> /\ cursor = 0
  /\ entity = <<>> /\ processed = <<>>

Sanitize ==
  /\ pc = "start"
  /\ safeName' = sanitizeName(name)
  /\ pc' = "sanitized"
  /\ UNCHANGED <<name, safeAgain>>
  /\ UNCHANGED <<mergeVars, groupVars, runVars, propVars>>

SanitizeAgain ==
  /\ pc = "sanitized"
  /\ safeAgain' = sanitizeName(safeName)
  /\ pc' = "resanitized"
  /\ UNCHANGED <<name, safeName>>
  /\ UNCHANGED <<mergeVars, groupVars, runVars, propVars>>

NextSanitize == Sanitize \/ SanitizeAgain

SpecSanitize == InitSanitize /\ [][NextSanitize]_vars

\* C7: sanitize is idempotent: a second application of sanitizeName to the
\* result of the first returns that result unchanged, for every input.
C7_SanitizeIdempotent ==
  pc = "resanitized" => safeAgain = safeName

\* the second application has run on an input that the first one changed in
\* each of the three ways: a reserved word, a leading digit, an illegal character
C7_Witness ==
  /\ pc = "resanitized"
  /\ safeAgain = safeName
  /\ \/ name \in PYTHON_RESERVED_WORDS
     \/ (Len(name) > 1 /\ IsDigit(name[1]) /\ ~IsWordChar(name[2]))

\* C8: the result of sanitizeName is made of characters of [A-Za-z0-9_] only,
\* does not start with a digit and is not a reserved word.
C8_SanitizeOutputLegal ==
  pc \in {"sanitized", "resanitized"} =>
    /\ \A i \in DOMAIN safeName : IsWordChar(safeName[i])
    /\ (Len(safeName) > 0 => ~IsDigit(safeName[1]))
    /\ safeName \notin PYTHON_RESERVED_WORDS

\* sanitizeName has run on a reserved word
C8_Witness ==
  /\ pc = "sanitized"
  /\ name \in PYTHON_RESERVED_WORDS
  /\ safeName = name \o <<"_">>

(***************************************************************************)
(* JavaScript objects.  An object is the sequence of its own <<key, value>> *)
(* pairs in the order Object.entries, Object.keys and the spread syntax     *)
(* visit them: keys that are array indices first, in ascending numeric      *)
(* order, then the other string keys in the order they were created.        *)
(***************************************************************************)
\* the largest array index, 2^32 - 2, in decimal
MaxArrayIndexDigits == <<"4","2","9","4","9","6","7","2","9","4">>

\* a before b in the order of their characters (strings of the same length)
RECURSIVE LexLess(_, _)
LexLess(a, b) ==
  IF a = <<>> \/ b = <<>> THEN FALSE
  ELSE LET da == CHOOSE i \in DOMAIN DigitSeq : DigitSeq[i] = Head(a)
           db == CHOOSE i \in DOMAIN DigitSeq : DigitSeq[i] = Head(b)
       IN  IF da # db THEN da < db ELSE LexLess(Tail(a), Tail(b))

\* the key is a canonical numeric string of an integer in 0 .. 2^32 - 2
IsArrayIndex(k) ==
  /\ Len(k) > 0
  /\ \A i \in DOMAIN k : IsDigit(k[i])
  /\ (Len(k) > 1 => k[1] # "0")
  /\ \/ Len(k) < Len(MaxArrayIndexDigits)
     \/ /\ Len(k) = Len(MaxArrayIndexDigits)
        /\ ~LexLess(MaxArrayIndexDigits, k)

\* numeric order of two array-index keys
IndexLess(a, b) == Len(a) < Len(b) \/ (Len(a) = Len(b) /\ LexLess(a, b))

ObjKeys(o) == [i \in DOMAIN o |-> o[i][1]]

ObjHasOwn(o, k) == \E i \in DOMAIN o : o[i][1] = k

ObjGetOwn(o, k) == o[CHOOSE i \in DOMAIN o : o[i][1] = k][2]

\* o[k] = v: an existing key keeps its place, a new array index goes among the
\* indices in numeric order, any other new key goes last
ObjSet_appendOnly(o, k, v) ==
  IF ObjHasOwn(o, k)
    THEN [i \in DOMAIN o |-> IF o[i][1] = k THEN <<k, v>> ELSE o[i]]
    ELSE Append(o, <<k, v>>)

ObjSet(o, k, v) ==
  IF ObjHasOwn(o, k)
    THEN [i \in DOMAIN o |-> IF o[i][1] = k THEN <<k, v>> ELSE o[i]]
  ELSE IF IsArrayIndex(k)
    THEN LET p == Cardinality({i \in DOMAIN o :
                                 IsArrayIndex(o[i][1]) /\ IndexLess(o[i][1], k)})
         IN  SubSeq(o, 1, p) \o << <<k, v>> >> \o SubSeq(o, p + 1, Len(o))
  ELSE Append(o, <<k, v>>)

\* the own properties of src copied onto target in src's order
RECURSIVE ObjAssign(_, _)
ObjAssign(target, src) ==
  IF src = <<>> THEN target
  ELSE ObjAssign(ObjSet(target, Head(src)[1], Head(src)[2]), Tail(src))

\* { ...a, ...b }
ObjSpread(a, b) == ObjAssign(ObjAssign(<<>>, a), b)

\* names every object inherits from Object.prototype: obj[name] is not
\* undefined for them even when obj has no such own property
ObjectPrototypeKeys ==
  { <<"c","o","n","s","t","r","u","c","t","o","r">>,
    <<"_","_","p","r","o","t","o","_","_">>,
    <<"t","o","S","t","r","i","n","g">>,
    <<"t","o","L","o","c","a","l","e","S","t","r","i","n","g">>,
    <<"v","a","l","u","e","O","f">>,
    <<"h","a","s","O","w","n","P","r","o","p","e","r","t","y">>,
    <<"i","s","P","r","o","t","o","t","y","p","e","O","f">>,
    <<"p","r","o","p","e","r","t","y","I","s","E","n","u","m","e","r","a","b","l","e">>,
    <<"_","_","d","e","f","i","n","e","G","e","t","t","e","r","_","_">>,
    <<"_","_","d","e","f","i","n","e","S","e","t","t","e","r","_","_">>,
    <<"_","_","l","o","o","k","u","p","G","e","t","t","e","r","_","_">>,
    <<"_","_","l","o","o","k","u","p","S","e","t","t","e","r","_","_">> }

\* the value undefined, an inherited member of Object.prototype, a thrown error
Undefined == [jsUndefined |-> TRUE]
Inherited(k) == [inherited |-> k]
Thrown(kind) == [thrown |-> kind]
IsThrown(v) == "thrown" \in DOMAIN v

\* Array.from(new Set(s)): the first occurrence of every element, in order
RECURSIVE Dedupe(_)
Dedupe(s) ==
  IF s = <<>> THEN <<>>
  ELSE LET init == Dedupe(SubSeq(s, 1, Len(s) - 1))
           last == s[Len(s)]
       IN  IF last \in Range(init) THEN init ELSE Append(init, last)

(***************************************************************************)
(* SchemaResolver.  A raw schema node is a function from its keys to their  *)
(* values; an absent key is absent from the domain.  In the nodes of the    *)
(* model allOf, oneOf and required are arrays and properties is an object   *)
(* whenever they are present, so each of them is truthy exactly when it is  *)
(* present; $ref is a string and is truthy when it is not empty.            *)
(***************************************************************************)
MaxCallDepth == 6

AnyToken == <<"A","n","y">>

\* s.split('/') and its last element (split('/').pop(), refSegments[length - 1])
lastSegment(s) ==
  LET slashes == {i \in DOMAIN s : s[i] = "/"}
  IN  IF slashes = {} THEN s
      ELSE SubSeq(s, (CHOOSE i \in slashes : \A j \in slashes : j <= i) + 1, Len(s))

\* sub.$ref as a condition
RefTruthy(sub) == "$ref" \in DOMAIN sub /\ sub["$ref"] # <<>>

\* components[name]: the own property, else what Object.prototype provides, else undefined
resolveRef(ref, comps) ==
  LET n == lastSegment(ref)
  IN  IF ObjHasOwn(comps, n) THEN ObjGetOwn(comps, n)
      ELSE IF n \in ObjectPrototypeKeys THEN Inherited(n)
      ELSE Undefined

\* mutant of mergeInto: on a key collision the base's definition is kept
mergeInto_baseWins(base, extra) ==
  LET b1 == IF "properties" \in DOMAIN extra
              THEN [base EXCEPT !.properties = ObjSpread(extra.properties, base.properties)]
              ELSE base
  IN  IF "required" \in DOMAIN extra
        THEN [b1 EXCEPT !.required = Dedupe(b1.required \o extra.required)]
        ELSE b1

\* mutant of mergeInto: the incoming required list replaces the base's
mergeInto_requiredReplaced(base, extra) ==
  LET b1 == IF "properties" \in DOMAIN extra
              THEN [base EXCEPT !.properties = ObjSpread(base.properties, extra.properties)]
              ELSE base
  IN  IF "required" \in DOMAIN extra
        THEN [b1 EXCEPT !.required = Dedupe(extra.required)]
        ELSE b1

\* the base after mergeInto(base, extra) (the code mutates base in place)
mergeInto(base, extra) ==
  LET b1 == IF "properties" \in DOMAIN extra
              THEN [base EXCEPT !.properties = ObjSpread(base.properties, extra.properties)]
              ELSE base
  IN  IF "required" \in DOMAIN extra
        THEN [b1 EXCEPT !.required = Dedupe(b1.required \o extra.required)]
        ELSE b1

\* mutant of compositionOf: oneOf is tested before allOf
compositionOf_oneOfFirst(node) ==
  IF "oneOf" \in DOMAIN node THEN "oneOf"
  ELSE IF "allOf" \in DOMAIN node THEN "allOf"
  ELSE "none"

\* which branch of mergeComplexSchema a node takes: if (schema.allOf) comes first
compositionOf(node) ==
  IF "allOf" \in DOMAIN node THEN "allOf"
  ELSE IF "oneOf" \in DOMAIN node THEN "oneOf"
  ELSE "none"

\* mutant of unionMember: the reference name is not sanitized
unionMember_unsanitized(sub) ==
  IF RefTruthy(sub) THEN lastSegment(sub["$ref"]) ELSE AnyToken

\* sub.$ref ? sanitizeName(sub.$ref.split('/').pop()) : 'Any'
unionMember(sub) ==
  IF RefTruthy(sub) THEN sanitizeName(lastSegment(sub["$ref"])) ELSE AnyToken

\* { xOneOfUnion: schema.oneOf.map(...) }
oneOfUnion(node) ==
  [xOneOfUnion |-> [i \in DOMAIN node.oneOf |-> unionMember(node.oneOf[i])]]

\* { type: 'object', properties: {}, required: [] }
EmptyMerged == [type |-> "object", properties |-> <<>>, required |-> <<>>]

\* mergeComplexSchema at a given depth of the call stack.  A call on undefined
\* throws a TypeError (schema.allOf of undefined); the recursion has no cycle
\* guard, and a stack deeper than MaxCallDepth stands for the stack overflow
\* (RangeError) that a reference cycle ends in.  An error thrown inside the
\* allOf loop leaves the loop and the function.
RECURSIVE mergeComplexSchemaAt(_, _, _)
RECURSIVE mergeAllOf(_, _, _, _)
\* mutant of mergeAllOf: a member that is a reference contributes nothing
mergeAllOf_inlineOnly(subs, merged, comps, depth) ==
  IF subs = <<>> THEN merged
  ELSE LET sub == Head(subs)
           part == mergeComplexSchemaAt(sub, comps, depth + 1)
       IN  IF RefTruthy(sub) THEN mergeAllOf(Tail(subs), merged, comps, depth)
           ELSE IF IsThrown(part) THEN part
           ELSE mergeAllOf(Tail(subs), mergeInto(merged, part), comps, depth)

mergeAllOf(subs, merged, comps, depth) ==
  IF subs = <<>> THEN merged
  ELSE LET sub == Head(subs)
           target == IF RefTruthy(sub) THEN resolveRef(sub["$ref"], comps) ELSE sub
           part == mergeComplexSchemaAt(target, comps, depth + 1)
       IN  IF IsThrown(part) THEN part
           ELSE mergeAllOf(Tail(subs), mergeInto(merged, part), comps, depth)

mergeComplexSchemaAt(node, comps, depth) ==
  IF depth > MaxCallDepth THEN Thrown("RangeError")
  ELSE IF node = Undefined THEN Thrown("TypeError")
  ELSE IF compositionOf(node) = "allOf" THEN mergeAllOf(node.allOf, EmptyMerged, comps, depth)
  ELSE IF compositionOf(node) = "oneOf" THEN oneOfUnion(node)
  ELSE node

mergeComplexSchema(node, comps) == mergeComplexSchemaAt(node, comps, 0)

(***************************************************************************)
(* SpecMerge: mergeComplexSchema on a bounded set of schema nodes against   *)
(* a components table, and the regrouped resolution of an allOf list.       *)
(***************************************************************************)
MaxMembers == 3

RefPrefix == <<"#","/","c","o","m","p","o","n","e","n","t","s","/","s","c","h","e","m","a","s","/">>

Ref(n) == "$ref" :> (RefPrefix \o n)

KX == <<"x">>
KY == <<"y">>
StrProp == [type |-> <<"s","t","r","i","n","g">>]
IntProp == [type |-> <<"i","n","t","e","g","e","r">>]

NameA == <<"A">>
NameB == <<"B">>
NameU == <<"U">>
NameN == <<"N">>
NameL == <<"L">>
NameZ == <<"Z">>

NoKeys == [k \in {} |-> k]
PlainX == [properties |-> << <<KX, StrProp>> >>, required |-> <<KX>>]
PlainXY == [properties |-> << <<KX, IntProp>>, <<KY, IntProp>> >>]
PlainYX == [properties |-> << <<KY, StrProp>>, <<KX, StrProp>> >>, required |-> <<KY, KX>>]
PlainReq == [properties |-> << <<KX, IntProp>> >>, required |-> <<KX, KY>>]

\* two tables: A and B hold object shapes, U a union, N a composition over a
\* reference, L a composition that refers to itself; Z is in neither table
TableOne ==
  << <<NameA, PlainX>>,
     <<NameB, PlainXY>>,
     <<NameU, [oneOf |-> <<Ref(NameA), Ref(NameB)>>]>>,
     <<NameN, [allOf |-> <<Ref(NameA), [properties |-> << <<KY, StrProp>> >>, required |-> <<KY>>]>>]>>,
     <<NameL, [allOf |-> <<Ref(NameL)>>]>> >>

TableTwo ==
  << <<NameA, PlainYX>>,
     <<NameB, NoKeys>>,
     <<NameU, [oneOf |-> <<PlainX>>]>>,
     <<NameN, [allOf |-> <<PlainReq, Ref(NameB), Ref(NameA)>>]>>,
     <<NameL, [allOf |-> <<Ref(NameN), Ref(NameL)>>]>> >>

ComponentTables == {TableOne, TableTwo}

SeqsUpTo(S, n) == UNION {[1..k -> S] : k \in 0..n}

AllOfMembers ==
  { Ref(NameA), Ref(NameB), Ref(NameU), Ref(NameN), Ref(NameL), Ref(NameZ),
    PlainReq, PlainYX, NoKeys,
    [allOf |-> <<Ref(NameB), PlainX>>] }

OneOfMembers ==
  { Ref(NameA), Ref(NameZ),
    "$ref" :> <<"a","s">>,
    Ref(<<"1","A">>),
    Ref(<<"B","-","c">>),
    PlainX, NoKeys }

SchemaNodes ==
  {[allOf |-> l] : l \in SeqsUpTo(AllOfMembers, MaxMembers)}
  \cup {[oneOf |-> l] : l \in SeqsUpTo(OneOfMembers, MaxMembers)}
  \cup {[allOf |-> l, oneOf |-> m] :
          l \in SeqsUpTo({Ref(NameA), PlainYX, Ref(NameU)}, 2),
          m \in SeqsUpTo({Ref(NameB), PlainX}, 2)}
  \cup {[allOf |-> l, properties |-> PlainX.properties, required |-> PlainX.required] :
          l \in SeqsUpTo({Ref(NameB), PlainYX}, 2)}
  \cup {NoKeys, PlainX, PlainXY, PlainYX, PlainReq}

InitMerge ==
  /\ pc = "start"
  /\ components \in ComponentTables
  /\ schema \in SchemaNodes
  /\ resolved = <<>>
  /\ regrouped = <<>>
  /\ name = <<>> /\ safeName = <<>> /\ safeAgain = <<>>
  /\ api = <<>> /\ pathsByTag = <<>> /\ rejection = <<>>
  /\ templates = {} /\ files = <<>> /\ diag = <<>> /\ cursor = 0
  /\ entity = <<>> /\ processed = <<>>

Resolve ==
  /\ pc = "start"
  /\ resolved' = mergeComplexSchema(schema, components)
  /\ pc' = "resolved"
  /\ UNCHANGED <<components, schema, regrouped>>
  /\ UNCHANGED <<sanitizeVars, groupVars, runVars, propVars>>

\* allOf [m1, m2, ..., mn] resolved as allOf [m1, X] with X the resolved
\* allOf [m2, ..., mn]
Regroup ==
  /\ pc = "resolved"
  /\ "allOf" \in DOMAIN schema
  /\ Len(schema.allOf) >= 2
  /\ LET rest == mergeComplexSchema([allOf |-> Tail(schema.allOf)], components)
     IN  regrouped' =
           IF IsThrown(rest) THEN rest
           ELSE mergeComplexSchema([allOf |-> <<Head(schema.allOf), rest>>], components)
  /\ pc' = "regrouped"
  /\ UNCHANGED <<components, schema, resolved>>
  /\ UNCHANGED <<sanitizeVars, groupVars, runVars, propVars>>

NextMerge == Resolve \/ Regroup

SpecMerge == InitMerge /\ [][NextMerge]_vars

\* what an allOf member contributes: the resolved form of the member, or of
\* the entity it refers to
Contribution(member, comps) ==
  mergeComplexSchema(IF RefTruthy(member) THEN resolveRef(member["$ref"], comps) ELSE member,
                     comps)

PropsOf(node) == IF "properties" \in DOMAIN node THEN node.properties ELSE <<>>
ReqOf(node) == IF "required" \in DOMAIN node THEN node.required ELSE <<>>
KeySet(o) == Range(ObjKeys(o))

C3_AllOfSuperimposes ==
  (pc # "start" /\ "allOf" \in DOMAIN schema /\ ~IsThrown(resolved)) =>
    LET n == Len(schema.allOf)
        P(i) == PropsOf(Contribution(schema.allOf[i], components))
        R(i) == ReqOf(Contribution(schema.allOf[i], components))
        decl(k) == {i \in 1..n : k \in KeySet(P(i))}
        last(k) == CHOOSE i \in decl(k) : \A j \in decl(k) : j <= i
    IN  /\ KeySet(resolved.properties) = UNION {KeySet(P(i)) : i \in 1..n}
        /\ Cardinality(KeySet(resolved.properties)) = Len(resolved.properties)
        /\ \A k \in KeySet(resolved.properties) :
             ObjGetOwn(resolved.properties, k) = ObjGetOwn(P(last(k)), k)
        /\ Range(resolved.required) = UNION {Range(R(i)) : i \in 1..n}
        /\ Cardinality(Range(resolved.required)) = Len(resolved.required)

\* the composition of the referenced entity A {x: string, required [x]} with
\* the inline member {x: integer, required [x, y]} has been resolved: the later
\* definition of x won and the required names were united
C3_Witness ==
  /\ pc = "resolved"
  /\ components = TableOne
  /\ schema = [allOf |-> <<Ref(NameA), PlainReq>>]
  /\ resolved.properties = << <<KX, IntProp>> >>
  /\ resolved.required = <<KX, KY>>

\* C5: resolving allOf [m1, m2, ..., mn] and resolving allOf [m1, X], X being
\* the resolved allOf [m2, ..., mn], give the same property map and the same
\* required set whenever the chain resolves (no reference cycle, no unknown
\* reference).
C5_MergeAssociative ==
  (pc = "regrouped" /\ ~IsThrown(resolved)) =>
    /\ ~IsThrown(regrouped)
    /\ Range(regrouped.properties) = Range(resolved.properties)
    /\ Range(regrouped.required) = Range(resolved.required)

\* a chain of three members in which the second and the third collide on a
\* property of the first has been resolved both ways
C5_Witness ==
  /\ pc = "regrouped"
  /\ components = TableOne
  /\ schema = [allOf |-> <<Ref(NameA), PlainYX, PlainReq>>]
  /\ ~IsThrown(resolved)
  /\ regrouped = resolved
  /\ resolved.properties = << <<KX, IntProp>>, <<KY, StrProp>> >>

\* C6: a node that declares oneOf and no allOf resolves to a union marker with
\* one member per oneOf entry, in order: for a reference the sanitized text
\* after the last '/' of its $ref, for an inline member 'Any'; the result does
\* not depend on the referenced entity being in the components table.
C6_OneOfUnionMembers ==
  (pc # "start" /\ "oneOf" \in DOMAIN schema /\ "allOf" \notin DOMAIN schema) =>
    /\ DOMAIN resolved = {"xOneOfUnion"}
    /\ Len(resolved.xOneOfUnion) = Len(schema.oneOf)
    /\ \A i \in DOMAIN schema.oneOf :
         LET m == schema.oneOf[i]
             t == resolved.xOneOfUnion[i]
         IN  IF "$ref" \in DOMAIN m
               THEN \E p \in 0..Len(m["$ref"]) :
                      /\ p > 0 => m["$ref"][p] = "/"
                      /\ \A q \in (p + 1)..Len(m["$ref"]) : m["$ref"][q] # "/"
                      /\ t = sanitizeName(SubSeq(m["$ref"], p + 1, Len(m["$ref"])))
               ELSE t = <<"A","n","y">>

\* a oneOf list of a reference to an unknown entity, a reference whose name is
\* a reserved word and an inline member has been resolved
C6_Witness ==
  /\ pc = "resolved"
  /\ schema = [oneOf |-> <<Ref(NameZ), "$ref" :> <<"a","s">>, PlainX>>]
  /\ ~ObjHasOwn(components, NameZ)
  /\ resolved = [xOneOfUnion |-> <<NameZ, <<"a","s","_">>, <<"A","n","y">>>>]

\* the names an allOf member contributes to a field (properties, required):
\* those of the entity it refers to or its own, through nested allOf lists;
\* none from a union
RECURSIVE FlatNames(_, _, _, _)
FlatNames(member, comps, field, fuel) ==
  IF fuel = 0 THEN {}
  ELSE LET target == IF "$ref" \in DOMAIN member
                       THEN ObjGetOwn(comps, lastSegment(member["$ref"]))
                       ELSE member
       IN  IF "allOf" \in DOMAIN target
             THEN UNION {FlatNames(target.allOf[i], comps, field, fuel - 1) :
                           i \in DOMAIN target.allOf}
           ELSE IF "oneOf" \in DOMAIN target THEN {}
           ELSE IF field = "properties" THEN KeySet(PropsOf(target))
           ELSE Range(ReqOf(target))

\* C19: a node with allOf resolves to a flat object shape, without allOf and
\* oneOf key, whose property names are those its members contribute, through
\* referenced entities and nested allOf lists; a union member contributes
\* nothing, and neither do properties and required names of the node itself.
C19_AllOfYieldsFlatShape ==
  (pc # "start" /\ "allOf" \in DOMAIN schema /\ ~IsThrown(resolved)) =>
    /\ DOMAIN resolved = {"type", "properties", "required"}
    /\ resolved.type = "object"
    /\ KeySet(resolved.properties)
         = UNION {FlatNames(schema.allOf[i], components, "properties", MaxCallDepth + 1) :
                    i \in DOMAIN schema.allOf}
    /\ Range(resolved.required)
         = UNION {FlatNames(schema.allOf[i], components, "required", MaxCallDepth + 1) :
                    i \in DOMAIN schema.allOf}
    /\ \A i \in DOMAIN resolved.properties :
         DOMAIN resolved.properties[i][2] \cap {"allOf", "oneOf"} = {}

\* two compositions have been resolved: one of a union and of an entity that
\* is itself a composition over a reference, and one of a node that declares
\* properties of its own beside allOf
C19_Witness ==
  /\ pc = "resolved"
  /\ components = TableOne
  /\ \/ /\ schema = [allOf |-> <<Ref(NameU), Ref(NameN)>>]
        /\ ObjKeys(resolved.properties) = <<KX, KY>>
        /\ resolved.required = <<KX, KY>>
     \/ /\ schema = [allOf |-> <<Ref(NameB)>>, properties |-> PlainX.properties,
                     required |-> PlainX.required]
        /\ resolved.required = <<>>
        /\ resolved.properties = PlainXY.properties

(***************************************************************************)
(* OperationGrouper: the pathsByTag loop of generate.  pathsByTag is an     *)
(* ordinary object literal, so a lookup pathsByTag[tag] also finds what     *)
(* Object.prototype provides, and its keys are visited in own-property      *)
(* order.                                                                   *)
(***************************************************************************)
ApiTag == <<"a","p","i">>
UndefinedKey == <<"u","n","d","e","f","i","n","e","d">>

Null == [jsNull |-> TRUE]

\* !operation || typeof operation !== 'object' is false: objects (and arrays)
IsObjectNode(operation) ==
  /\ operation # Null
  /\ operation # Undefined
  /\ "jsString" \notin DOMAIN operation

\* (operation.tags || ['api'])[0] as a property key: a present array is truthy
\* even when it is empty, and the key of undefined is the string 'undefined'
tagKeyOf(operation) ==
  LET tags == IF "tags" \in DOMAIN operation THEN operation.tags ELSE <<ApiTag>>
  IN  IF tags = <<>> THEN UndefinedKey ELSE tags[1]

\* the state of the grouping loops: the groups formed so far and the error
\* thrown, if any
NoError == [none |-> TRUE]
Grouping(groups, error) == [groups |-> groups, error |-> error]

\* one pass of the inner loop body: a non-object node is skipped; a tag that
\* pathsByTag does not own but Object.prototype provides passes the
\* !pathsByTag[tag] test uninitialised, and the push on it throws a TypeError
fileOperation(byTag, pathUrl, method, operation) ==
  IF ~IsObjectNode(operation) THEN Grouping(byTag, NoError)
  ELSE LET tag == tagKeyOf(operation)
           entry == [path |-> pathUrl, method |-> method, operation |-> operation]
       IN  IF ObjHasOwn(byTag, tag)
             THEN Grouping(ObjSet(byTag, tag, Append(ObjGetOwn(byTag, tag), entry)), NoError)
           ELSE IF tag \in ObjectPrototypeKeys
             THEN Grouping(byTag, Thrown("TypeError"))
           ELSE Grouping(ObjSet(byTag, tag, <<entry>>), NoError)

RECURSIVE groupMethods(_, _, _)
groupMethods(state, pathUrl, pathItem) ==
  IF state.error # NoError \/ pathItem = <<>> THEN state
  ELSE groupMethods(fileOperation(state.groups, pathUrl, Head(pathItem)[1], Head(pathItem)[2]),
                    pathUrl, Tail(pathItem))

RECURSIVE groupPaths(_, _)
groupPaths(state, paths) ==
  IF state.error # NoError \/ paths = <<>> THEN state
  ELSE groupPaths(groupMethods(state, Head(paths)[1], Head(paths)[2]), Tail(paths))

\* pathsByTag as the two nested loops leave it, and the error they threw
groupOperations(paths) == groupPaths(Grouping(<<>>, NoError), paths)

(***************************************************************************)
(* SpecGroup: the grouping applied to every paths mapping of at most MaxOps *)
(* operations, spread over paths in every way.                              *)
(***************************************************************************)
MaxOps == 3

TagP == <<"p">>
TagU == <<"u">>
TagOne == <<"1">>
TagTwo == <<"2">>
TagConstructor == <<"c","o","n","s","t","r","u","c","t","o","r">>

\* a non-object node, an operation without tags, with an empty tag list, with
\* one tag, with several tags
GroupOperations ==
  { Null,
    [operationId |-> "op"],
    [tags |-> <<>>],
    [tags |-> <<TagP>>],
    [tags |-> <<TagTwo>>],
    [tags |-> <<TagOne>>],
    [tags |-> <<TagConstructor>>],
    [tags |-> <<TagU, TagP>>] }

MethodSeq == << <<"g","e","t">>, <<"p","o","s","t">>, <<"p","u","t">>, <<"d","e","l","e","t","e">>, <<"p","a","t","c","h">> >>

PathUrl(i) == <<"/", LowerSeq[i]>>

\* the paths object of a flat list of <<operation, opens a new path>> pairs
RECURSIVE BuildPaths(_)
BuildPaths(flat) ==
  IF flat = <<>> THEN <<>>
  ELSE LET before == BuildPaths(SubSeq(flat, 1, Len(flat) - 1))
           operation == flat[Len(flat)][1]
           opens == flat[Len(flat)][2] \/ before = <<>>
       IN  IF opens
             THEN Append(before, <<PathUrl(Len(before) + 1), << <<MethodSeq[1], operation>> >> >>)
             ELSE LET item == before[Len(before)]
                  IN  [before EXCEPT ![Len(before)] =
                         <<item[1], Append(item[2], <<MethodSeq[Len(item[2]) + 1], operation>>)>>]

GroupPathInputs ==
  {BuildPaths(flat) : flat \in {f \in SeqsUpTo(GroupOperations \X BOOLEAN, MaxOps) :
                                  f = <<>> \/ f[1][2]}}

InitGroup ==
  /\ pc = "start"
  /\ api \in {[paths |-> p] : p \in GroupPathInputs}
  /\ pathsByTag = <<>>
  /\ rejection = NoError
  /\ name = <<>> /\ safeName = <<>> /\ safeAgain = <<>>
  /\ schema = <<>> /\ resolved = <<>> /\ regrouped = <<>> /\ components = <<>>
  /\ templates = {} /\ files = <<>> /\ diag = <<>> /\ cursor = 0
  /\ entity = <<>> /\ processed = <<>>

Group ==
  /\ pc = "start"
  /\ pathsByTag' = groupOperations(api.paths).groups
  /\ rejection' = groupOperations(api.paths).error
  /\ pc' = "grouped"
  /\ UNCHANGED <<api, sanitizeVars, mergeVars, runVars, propVars>>

NextGroup == Group

SpecGroup == InitGroup /\ [][NextGroup]_vars

\* the (path, method, operation) entries of a paths object whose operation
\* node is an object, in iteration order
RECURSIVE EntriesOfItem(_, _)
EntriesOfItem(pathUrl, pathItem) ==
  IF pathItem = <<>> THEN <<>>
  ELSE (IF IsObjectNode(Head(pathItem)[2])
          THEN <<[path |-> pathUrl, method |-> Head(pathItem)[1], operation |-> Head(pathItem)[2]]>>
          ELSE <<>>)
       \o EntriesOfItem(pathUrl, Tail(pathItem))

RECURSIVE EntriesOf(_)
EntriesOf(paths) ==
  IF paths = <<>> THEN <<>>
  ELSE EntriesOfItem(Head(paths)[1], Head(paths)[2]) \o EntriesOf(Tail(paths))

\* s restricted to the elements of S, in order
RECURSIVE Restrict(_, _)
Restrict(s, S) ==
  IF s = <<>> THEN <<>>
  ELSE (IF Head(s) \in S THEN <<Head(s)>> ELSE <<>>) \o Restrict(Tail(s), S)

\* C2 as stated: when the grouping completes, every object-valued operation
\* is filed under the first tag of its tag list, under 'api' when the list is
\* absent or empty, and under no other key.
C2_FiledUnderFirstTagOrApi ==
  (pc = "grouped" /\ rejection = NoError) =>
    \A e \in Range(EntriesOf(api.paths)) :
      LET expected == IF "tags" \in DOMAIN e.operation /\ e.operation.tags # <<>>
                        THEN e.operation.tags[1]
                        ELSE ApiTag
      IN  \A i \in DOMAIN pathsByTag :
            (e \in Range(pathsByTag[i][2])) <=> (pathsByTag[i][1] = expected)

\* C4 as stated: for every paths mapping the grouping yields groups whose
\* members, taken together, are exactly the (path, method) pairs with an
\* object operation node, each in one group and once, and every group keeps
\* its members in the iteration order of paths and methods.
C4_GroupingIsPartition ==
  pc = "grouped" =>
    /\ rejection = NoError
    /\ LET all == EntriesOf(api.paths)
           members(i) == pathsByTag[i][2]
       IN  /\ \A e \in Range(all) :
                Cardinality({<<i, j>> \in (DOMAIN pathsByTag) \X (1..Len(all)) :
                               j \in DOMAIN members(i) /\ members(i)[j] = e}) = 1
           /\ \A i \in DOMAIN pathsByTag :
                /\ members(i) # <<>>
                /\ members(i) = Restrict(all, Range(members(i)))

(***************************************************************************)
(* TypeMapper: getPythonType.  An argument is the sequence of the one value *)
(* passed, or the empty sequence for undefined (a field the schema does not *)
(* have); type and format are strings.                                      *)
(***************************************************************************)
\* node[k] as an argument
Field(node, k) == IF k \in DOMAIN node THEN <<node[k]>> ELSE <<>>

\* a string argument that is neither undefined nor empty
Truthy(arg) == arg # <<>> /\ arg[1] # <<>>

\* the inner switch (format) of the case 'string'
stringType(format) ==
  IF format = <<>> THEN <<"s","t","r">>
  ELSE CASE format[1] = <<"d","a","t","e">> -> <<"d","a","t","e","t","i","m","e",".","d","a","t","e">>
         [] format[1] = <<"d","a","t","e","-","t","i","m","e">> -> <<"d","a","t","e","t","i","m","e",".","d","a","t","e","t","i","m","e">>
         [] format[1] = <<"u","u","i","d">> -> <<"u","u","i","d",".","U","U","I","D">>
         [] format[1] = <<"e","m","a","i","l">> -> <<"E","m","a","i","l","S","t","r">>
         [] format[1] \in {<<"u","r","i">>, <<"u","r","l">>} -> <<"A","n","y","U","r","l">>
         [] format[1] \in {<<"b","y","t","e">>, <<"b","i","n","a","r","y">>} -> <<"b","y","t","e","s">>
         [] format[1] = <<"p","a","s","s","w","o","r","d">> -> <<"S","e","c","r","e","t","S","t","r">>
         [] OTHER -> <<"s","t","r">>

\* mutant of getPythonType: the reference is looked at only when there is no type
RECURSIVE getPythonType_typeBeforeRef(_, _, _, _)
getPythonType_typeBeforeRef(openapiType, format, items, ref) ==
  IF ~Truthy(openapiType)
    THEN IF Truthy(ref) THEN sanitizeName(lastSegment(ref[1])) ELSE AnyToken
  ELSE CASE openapiType[1] = <<"i","n","t","e","g","e","r">> -> <<"i","n","t">>
         [] openapiType[1] = <<"n","u","m","b","e","r">> -> <<"f","l","o","a","t">>
         [] openapiType[1] = <<"b","o","o","l","e","a","n">> -> <<"b","o","o","l">>
         [] openapiType[1] = <<"s","t","r","i","n","g">> -> stringType(format)
         [] openapiType[1] = <<"a","r","r","a","y">> ->
              LET childType ==
                    IF items # <<>>
                      THEN getPythonType_typeBeforeRef(Field(items[1], "type"), Field(items[1], "format"),
                                                       Field(items[1], "items"), Field(items[1], "$ref"))
                      ELSE AnyToken
              IN  <<"L","i","s","t","[">> \o childType \o <<"]">>
         [] openapiType[1] = <<"o","b","j","e","c","t">> -> <<"D","i","c","t","[","s","t","r",","," ","A","n","y","]">>
         [] OTHER -> AnyToken

RECURSIVE getPythonType(_, _, _, _)
getPythonType(openapiType, format, items, ref) ==
  IF Truthy(ref) THEN sanitizeName(lastSegment(ref[1]))
  ELSE IF ~Truthy(openapiType) THEN AnyToken
  ELSE CASE openapiType[1] = <<"i","n","t","e","g","e","r">> -> <<"i","n","t">>
         [] openapiType[1] = <<"n","u","m","b","e","r">> -> <<"f","l","o","a","t">>
         [] openapiType[1] = <<"b","o","o","l","e","a","n">> -> <<"b","o","o","l">>
         [] openapiType[1] = <<"s","t","r","i","n","g">> -> stringType(format)
         [] openapiType[1] = <<"a","r","r","a","y">> ->
              LET childType ==
                    IF items # <<>>
                      THEN getPythonType(Field(items[1], "type"), Field(items[1], "format"),
                                         Field(items[1], "items"), Field(items[1], "$ref"))
                      ELSE AnyToken
              IN  <<"L","i","s","t","[">> \o childType \o <<"]">>
         [] openapiType[1] = <<"o","b","j","e","c","t">> -> <<"D","i","c","t","[","s","t","r",","," ","A","n","y","]">>
         [] OTHER -> AnyToken

(***************************************************************************)
(* PropertyProcessor, EnumExtractor and ImportCollector: the property loop  *)
(* of generate, processEnums and gatherImportsForProps.  A literal of the   *)
(* description (default, example, enum value) is a record tagged with its   *)
(* typeof: [boolean |-> b], [string |-> s], [number |-> n].                 *)
(***************************************************************************)
\* s.includes(sub)
Includes(s, sub) ==
  \E i \in 0..(Len(s) - Len(sub)) : SubSeq(s, i + 1, i + Len(sub)) = sub

\* s.replace(/pat/g, rep) for a literal pat
RECURSIVE ReplaceAll(_, _, _)
ReplaceAll(s, pat, rep) ==
  IF Len(s) < Len(pat) THEN s
  ELSE IF SubSeq(s, 1, Len(pat)) = pat
    THEN rep \o ReplaceAll(SubSeq(s, Len(pat) + 1, Len(s)), pat, rep)
    ELSE <<Head(s)>> \o ReplaceAll(Tail(s), pat, rep)

decodeHtmlEntities(str) ==
  ReplaceAll(ReplaceAll(str, <<"&","q","u","o","t",";">>, <<"\"">>), <<"&","a","m","p",";">>, <<"&">>)

Quoted(str) == <<"\"">> \o str \o <<"\"">>

\* lines 322-327
defaultLiteral(defVal) ==
  IF "boolean" \in DOMAIN defVal THEN (IF defVal.boolean THEN <<"T","r","u","e">> ELSE <<"F","a","l","s","e">>)
  ELSE IF "string" \in DOMAIN defVal THEN Quoted(defVal.string)
  ELSE defVal

\* line 329
exampleLiteral(example) ==
  IF "string" \in DOMAIN example THEN Quoted(example.string) ELSE example

\* a property of an object literal; a property whose value is undefined is
\* left out
Prop(k, arg) == IF arg = <<>> THEN NoKeys ELSE (k :> arg[1])

\* the entry of processedProperties built from one property, lines 312-340
processProperty(propName, ps) ==
  [ originalName |-> propName,
    name |-> sanitizeName(propName),
    type |-> getPythonType(Field(ps, "type"), Field(ps, "format"),
                           Field(ps, "items"), Field(ps, "$ref")),
    description |-> IF Truthy(Field(ps, "description")) THEN ps.description ELSE <<>> ]
  @@ Prop("default", IF "default" \in DOMAIN ps THEN <<defaultLiteral(ps.default)>> ELSE <<>>)
  @@ Prop("example", IF "example" \in DOMAIN ps THEN <<exampleLiteral(ps.example)>> ELSE <<>>)
  @@ Prop("regex", IF Truthy(Field(ps, "pattern"))
                     THEN <<<<"r">> \o Quoted(decodeHtmlEntities(ps.pattern))>>
                     ELSE <<>>)
  @@ Prop("enum", Field(ps, "enum"))

\* the property loop, lines 310-341: processedProperties[sanitizedName] = {...}
RECURSIVE processProperties(_, _)
processProperties(acc, properties) ==
  IF properties = <<>> THEN acc
  ELSE LET propName == Head(properties)[1]
           entry == processProperty(propName, Head(properties)[2])
       IN  processProperties(ObjSet(acc, entry.name, entry), Tail(properties))

\* sanitizeName(`${schemaName}_${propName}_Enum`)
getEnumName(schemaName, propName) ==
  sanitizeName(schemaName \o <<"_">> \o propName \o <<"_","E","n","u","m">>)

\* ps.enum && Array.isArray(ps.enum): the enum lists of the model are arrays
HasEnum(propObj) == "enum" \in DOMAIN propObj

\* the list processEnums returns
RECURSIVE processEnums(_, _)
processEnums(schemaName, processedProperties) ==
  IF processedProperties = <<>> THEN <<>>
  ELSE LET propKey == Head(processedProperties)[1]
           propObj == Head(processedProperties)[2]
       IN  (IF HasEnum(propObj)
              THEN <<[enumName |-> getEnumName(schemaName, propKey), values |-> propObj.enum]>>
              ELSE <<>>)
           \o processEnums(schemaName, Tail(processedProperties))

\* processedProperties after processEnums: ps.type = enumName
enumTyped(schemaName, processedProperties) ==
  [i \in DOMAIN processedProperties |->
     LET propKey == processedProperties[i][1]
         propObj == processedProperties[i][2]
     IN  IF HasEnum(propObj)
           THEN <<propKey, [propObj EXCEPT !.type = getEnumName(schemaName, propKey)]>>
           ELSE processedProperties[i]]

\* mutant of importsOfType: the pydantic markers are not looked for
importsOfType_typingOnly(type) ==
  (IF Includes(type, <<"L","i","s","t","[">>) THEN <<"from typing import List">> ELSE <<>>)
  \o (IF Includes(type, <<"D","i","c","t","[">>) THEN <<"from typing import Dict, Any">> ELSE <<>>)

\* the imports one type adds, in the order of the tests, lines 174-184
importsOfType(type) ==
  (IF Includes(type, <<"L","i","s","t","[">>) THEN <<"from typing import List">> ELSE <<>>)
  \o (IF Includes(type, <<"D","i","c","t","[">>) THEN <<"from typing import Dict, Any">> ELSE <<>>)
  \o (IF Includes(type, <<"A","n","y","U","r","l">>) THEN <<"from pydantic import AnyUrl">> ELSE <<>>)
  \o (IF Includes(type, <<"E","m","a","i","l","S","t","r">>) THEN <<"from pydantic import EmailStr">> ELSE <<>>)
  \o (IF Includes(type, <<"S","e","c","r","e","t","S","t","r">>) THEN <<"from pydantic import SecretStr">> ELSE <<>>)
  \o (IF Includes(type, <<"d","a","t","e","t","i","m","e",".","d","a","t","e">>) \/ Includes(type, <<"d","a","t","e","t","i","m","e",".","d","a","t","e","t","i","m","e">>)
        THEN <<"import datetime">> ELSE <<>>)
  \o (IF Includes(type, <<"u","u","i","d",".","U","U","I","D">>) THEN <<"import uuid">> ELSE <<>>)

\* Array.from(imports): a Set keeps the order of the first insertions
RECURSIVE importsOfAll(_)
importsOfAll(processedProperties) ==
  IF processedProperties = <<>> THEN <<>>
  ELSE importsOfType(Head(processedProperties)[2].type) \o importsOfAll(Tail(processedProperties))

gatherImportsForProps(processedProperties) == Dedupe(importsOfAll(processedProperties))

\* lines 310-347 and the context of lines 352-357: sch with its
\* processedProperties (as processEnums left them), the imports, the enums
modelContext(schemaName, sch) ==
  LET built == processProperties(<<>>, sch.properties)
      createdEnums == processEnums(schemaName, built)
      processedProperties == enumTyped(schemaName, built)
  IN  [ name |-> schemaName,
        schema |-> [k \in DOMAIN sch \cup {"processedProperties"} |->
                      IF k = "processedProperties" THEN processedProperties ELSE sch[k]],
        importsList |-> gatherImportsForProps(processedProperties),
        createdEnums |-> createdEnums ]

(***************************************************************************)
(* SpecProps: the property processing of one entity with a properties map.  *)
(* There is no components table: every reference of a property is to an     *)
(* entity the processing cannot look up.                                    *)
(***************************************************************************)
MaxItemsDepth == 2
MaxProps == 2

KIf == <<"i","f">>
KZ == <<"z">>
NameMyAnyUrl == <<"M","y","A","n","y","U","r","l">>
NameDashed == <<"B","-","c">>

Typed(type) == [type |-> type]
Formatted(type, format) == [type |-> type, format |-> format]
ArrayOf(items) == [type |-> <<"a","r","r","a","y">>, items |-> items]

\* property schemas without items
LeafSchemas ==
  { NoKeys, IntProp, StrProp,
    Formatted(<<"n","u","m","b","e","r">>, <<"f","l","o","a","t">>), Typed(<<"b","o","o","l","e","a","n">>), Typed(<<"o","b","j","e","c","t">>), Typed(<<"f","o","o">>),
    Formatted(<<"s","t","r","i","n","g">>, <<"d","a","t","e">>), Formatted(<<"s","t","r","i","n","g">>, <<"d","a","t","e","-","t","i","m","e">>),
    Formatted(<<"s","t","r","i","n","g">>, <<"u","u","i","d">>), Formatted(<<"s","t","r","i","n","g">>, <<"e","m","a","i","l">>),
    Formatted(<<"s","t","r","i","n","g">>, <<"u","r","i">>), Formatted(<<"s","t","r","i","n","g">>, <<"b","y","t","e">>),
    Formatted(<<"s","t","r","i","n","g">>, <<"p","a","s","s","w","o","r","d">>),
    Ref(NameA), Ref(NameMyAnyUrl), Ref(<<"c","l","a","s","s">>),
    Ref(NameB) @@ Formatted(<<"s","t","r","i","n","g">>, <<"e","m","a","i","l">>),
    Ref(NameB) @@ ArrayOf(StrProp) }

\* what the items of an array are, other than an array
ItemSchemas ==
  { NoKeys, StrProp, Formatted(<<"s","t","r","i","n","g">>, <<"e","m","a","i","l">>), Typed(<<"o","b","j","e","c","t">>),
    Ref(NameA), Ref(NameB) @@ ArrayOf(StrProp) }

\* the arrays of nesting depth 1 .. d
RECURSIVE ArraySchemas(_)
ArraySchemas(d) ==
  IF d = 0 THEN {}
  ELSE {Typed(<<"a","r","r","a","y">>)} \cup {ArrayOf(items) : items \in ItemSchemas \cup ArraySchemas(d - 1)}

\* property schemas with an enum list, with literals and a pattern
DecoratedSchemas ==
  { [type |-> <<"s","t","r","i","n","g">>, enum |-> <<[string |-> <<"a">>], [string |-> <<"b">>]>>],
    [type |-> <<"s","t","r","i","n","g">>, format |-> <<"e","m","a","i","l">>, enum |-> <<[string |-> <<"a">>]>>],
    [type |-> <<"s","t","r","i","n","g">>, pattern |-> <<"&","q","u","o","t",";","a","&","a","m","p",";">>, default |-> [string |-> <<"d">>],
     example |-> [string |-> <<"e">>], description |-> <<"t","e","x","t">>],
    [type |-> <<"b","o","o","l","e","a","n">>, default |-> [boolean |-> TRUE], example |-> [number |-> 1]] }

PropSchemas == LeafSchemas \cup ArraySchemas(MaxItemsDepth) \cup DecoratedSchemas

\* the properties an entity may have after its first one, in this order; the
\* last one has the name the reserved word 'if' is sanitized to
FurtherProps ==
  << <<KY, Formatted(<<"s","t","r","i","n","g">>, <<"e","m","a","i","l">>)>>, <<KZ, Ref(NameB)>>, <<<<"i","f","_">>, IntProp>> >>

PropertyMaps ==
  {<< <<first, ps>> >> \o Restrict(FurtherProps, S) :
     first \in {KX, KIf}, ps \in PropSchemas,
     S \in {T \in SUBSET Range(FurtherProps) : Cardinality(T) < MaxProps}}

PropEntities ==
  {[properties |-> m] : m \in PropertyMaps}
  \cup {[properties |-> m, required |-> <<m[1][1]>>] : m \in PropertyMaps}
  \cup {[properties |-> m, required |-> <<KY, m[1][1]>>] : m \in PropertyMaps}

InitProps ==
  /\ pc = "start"
  /\ entity \in {[name |-> n, schema |-> e] : n \in {NameA, NameDashed}, e \in PropEntities}
  /\ processed = <<>>
  /\ name = <<>> /\ safeName = <<>> /\ safeAgain = <<>>
  /\ schema = <<>> /\ resolved = <<>> /\ regrouped = <<>> /\ components = <<>>
  /\ api = <<>> /\ pathsByTag = <<>> /\ rejection = <<>>
  /\ templates = {} /\ files = <<>> /\ diag = <<>> /\ cursor = 0

\* lines 308-347 on one entity
ProcessEntity ==
  /\ pc = "start"
  /\ processed' = modelContext(entity.name, entity.schema)
  /\ pc' = "processed"
  /\ UNCHANGED <<entity, sanitizeVars, mergeVars, groupVars, runVars>>

NextProps == ProcessEntity

SpecProps == InitProps /\ [][NextProps]_vars

\* the source schema of an entry of the processed properties
SourceOf(entry) == ObjGetOwn(entity.schema.properties, entry.originalName)

ProcessedEntries ==
  {processed.schema.processedProperties[i][2] :
     i \in DOMAIN processed.schema.processedProperties}

\* C14 as stated: the required set of a resolved object-shape entity holds
\* the sanitized names of the names listed as required in the source, so a
\* required entry that names a declared property is a key of the entity's
\* sanitized property map.
C14_RequiredNamesSanitized ==
  pc = "processed" =>
    /\ Range(ReqOf(processed.schema))
         = {sanitizeName(r) : r \in Range(ReqOf(entity.schema))}
    /\ \A r \in Range(ReqOf(processed.schema)) :
         (\E q \in KeySet(entity.schema.properties) : r \in {q, sanitizeName(q)})
           => r \in KeySet(processed.schema.processedProperties)

\* the statements that provide the symbols a property schema's target type
\* uses, by the structure of the schema: a reference uses the entity's name
\* only, a missing or unknown type is Any, an array is List of its items' type
RECURSIVE NeededImports(_)
NeededImports(ps) ==
  IF "$ref" \in DOMAIN ps THEN {}
  ELSE IF "type" \notin DOMAIN ps THEN {"from typing import Dict, Any"}
  ELSE IF ps.type = <<"a","r","r","a","y">>
    THEN {"from typing import List"}
         \cup (IF "items" \in DOMAIN ps THEN NeededImports(ps.items)
               ELSE {"from typing import Dict, Any"})
  ELSE IF ps.type = <<"o","b","j","e","c","t">> THEN {"from typing import Dict, Any"}
  ELSE IF ps.type \in {<<"i","n","t","e","g","e","r">>, <<"n","u","m","b","e","r">>, <<"b","o","o","l","e","a","n">>} THEN {}
  ELSE IF ps.type # <<"s","t","r","i","n","g">> THEN {"from typing import Dict, Any"}
  ELSE IF "format" \notin DOMAIN ps THEN {}
  ELSE IF ps.format \in {<<"d","a","t","e">>, <<"d","a","t","e","-","t","i","m","e">>} THEN {"import datetime"}
  ELSE IF ps.format = <<"u","u","i","d">> THEN {"import uuid"}
  ELSE IF ps.format = <<"e","m","a","i","l">> THEN {"from pydantic import EmailStr"}
  ELSE IF ps.format \in {<<"u","r","i">>, <<"u","r","l">>} THEN {"from pydantic import AnyUrl"}
  ELSE IF ps.format = <<"p","a","s","s","w","o","r","d">> THEN {"from pydantic import SecretStr"}
  ELSE {}

\* C15 as stated: the import list has no duplicates and holds a statement
\* iff the target type of some processed property (an enum name where the
\* property has an enum list) uses a symbol the statement provides.
C15_ImportsAreExactlyNeeded ==
  pc = "processed" =>
    /\ Cardinality(Range(processed.importsList)) = Len(processed.importsList)
    /\ Range(processed.importsList)
         = UNION {IF "enum" \in DOMAIN e THEN {} ELSE NeededImports(SourceOf(e)) :
                    e \in ProcessedEntries}

\* ty is the type of ps as C16 has it: at a level with a reference the
\* sanitized text after the last '/', at an array level List[...] around the
\* type of the items or around Any, at any other level no List token
RECURSIVE TypeAsStated(_, _)
TypeAsStated(ps, ty) ==
  IF "$ref" \in DOMAIN ps
    THEN \E p \in 0..Len(ps["$ref"]) :
           /\ p > 0 => ps["$ref"][p] = "/"
           /\ \A q \in (p + 1)..Len(ps["$ref"]) : ps["$ref"][q] # "/"
           /\ ty = sanitizeName(SubSeq(ps["$ref"], p + 1, Len(ps["$ref"])))
  ELSE IF "type" \in DOMAIN ps /\ ps.type = <<"a","r","r","a","y">>
    THEN /\ Len(ty) >= 6
         /\ SubSeq(ty, 1, 5) = <<"L","i","s","t","[">>
         /\ ty[Len(ty)] = "]"
         /\ LET inner == SubSeq(ty, 6, Len(ty) - 1)
            IN  IF "items" \in DOMAIN ps THEN TypeAsStated(ps.items, inner)
                ELSE inner = <<"A","n","y">>
  ELSE /\ ty # <<>>
       /\ ~Includes(ty, <<"L","i","s","t","[">>)

\* C16: the type of every property is computed (the recursion over items
\* ends) without any entity being looked up; at every level a reference gives
\* the sanitized last segment whatever type, format and items say, and an
\* array of nesting depth n gives n nested List[...] around the element type,
\* which is Any where items is absent.
C16_TypeFollowsItemsOnly ==
  pc = "processed" =>
    \A e \in ProcessedEntries :
      "enum" \notin DOMAIN e => TypeAsStated(SourceOf(e), e.type)

\* an array of arrays whose inner items have a reference beside type and
\* items has been given the type List[List[B]], and an array without items
\* the type List[Any] has been seen too
C16_Witness ==
  /\ pc = "processed"
  /\ \E e \in ProcessedEntries :
       /\ SourceOf(e) = ArrayOf(ArrayOf(Ref(NameB) @@ ArrayOf(StrProp)))
       /\ e.type = <<"L","i","s","t","[","L","i","s","t","[","B","]","]">>

(***************************************************************************)
(* EmissionPipeline: pythonFastApiGenerator.generate.  A template is an     *)
(* external render function, so the content of a rendered file is the pair  *)
(* of the template's name and the context it was called with.  Rendering a  *)
(* file and writing it may each throw; both land in the same catch block,   *)
(* and the model has one failure per artifact.  DEBUG messages are not      *)
(* recorded.                                                                *)
(***************************************************************************)
TemplateNames == {"main", "requirements", "README", "model_class", "one_of_union", "api_routes"}

MainPath == <<"m","a","i","n",".","p","y">>
RequirementsPath == <<"r","e","q","u","i","r","e","m","e","n","t","s",".","t","x","t">>
ReadmePath == <<"R","E","A","D","M","E",".","m","d">>
ModelsDir == <<"m","o","d","e","l","s","/">>
ApisDir == <<"a","p","i","s","/">>
PyExt == <<".","p","y">>
InitName == <<"_","_","i","n","i","t","_","_">>

\* path.join(modelsDir, `${schemaName.toLowerCase()}.py`)
ModelPath(schemaName) == ModelsDir \o toLowerCase(schemaName) \o PyExt

\* path.join(apisDir, `${tag.toLowerCase()}.py`)
RoutePath(tag) == ApisDir \o toLowerCase(tag) \o PyExt

\* path.join(apisDir, `__init__.py`)
AggregatorPath == ApisDir \o InitName \o PyExt

Render(template, context) == [template |-> template, context |-> context]

\* one successful fs.writeFileSync(path, content); artifact and key name the
\* place of the call in generate and the entity or tag it was made for
Written(artifact, key, path, content) ==
  [artifact |-> artifact, key |-> key, path |-> path, content |-> content]

\* one logMessage(level, 'python-fastapi', message ...)
Log(level, message, subject) == [level |-> level, message |-> message, subject |-> subject]

\* an ERROR message: its fixed text, the names its text interpolates (an
\* entity, a tag), the error it prints
ErrorLog(message, names, error) == Log("ERROR", message, [names |-> names, error |-> error])

\* the error a collaborator throws while an artifact is rendered or written
Failure(artifact, key) == [thrownBy |-> artifact, key |-> key]

\* (api.components && api.components.schemas) || {}
schemasOf(description) ==
  IF "components" \in DOMAIN description /\ "schemas" \in DOMAIN description.components
    THEN description.components.schemas
    ELSE <<>>

\* the content generateAggregatorFile builds, line by line: the header, one
\* import line per key of pathsByTag, an empty line, one include_router line
\* per key
AggregatorLine(kind, safeTag) == [kind |-> kind, safeTag |-> safeTag]

aggregatorContent(byTag) ==
  << AggregatorLine("from fastapi import APIRouter", <<>>),
     AggregatorLine("", <<>>),
     AggregatorLine("router = APIRouter()", <<>>) >>
  \o [i \in DOMAIN byTag |-> AggregatorLine("import", toLowerCase(byTag[i][1]))]
  \o << AggregatorLine("", <<>>) >>
  \o [i \in DOMAIN byTag |-> AggregatorLine("include_router", toLowerCase(byTag[i][1]))]

\* the outer catch: the messages logged on the way, 'Generation failed', and
\* the same error thrown on to the caller
Reject(logged, error) ==
  /\ diag' = diag \o logged \o <<ErrorLog("Generation failed:", <<>>, error)>>
  /\ rejection' = error
  /\ pc' = "rejected"

Complete == Log("INFO", "Python FastAPI Code Generation complete.", <<>>)

\* lines 232-238
Start ==
  /\ pc = "start"
  /\ \/ /\ diag' = Append(diag, Log("INFO", "Starting generation process...", <<>>))
        /\ pc' = "load"
        /\ UNCHANGED rejection
     \/ Reject(<<Log("INFO", "Starting generation process...", <<>>)>>,
               Failure("ensureOutputDir", <<>>))
  /\ UNCHANGED <<api, pathsByTag, templates, files, cursor, sanitizeVars, mergeVars, propVars>>

\* mutant of LoadTemplates: a failure is thrown on without its own message
LoadTemplates_noDiagnostic ==
  /\ pc = "load"
  /\ \/ \E loaded \in SUBSET TemplateNames :
          /\ templates' = loaded
          /\ diag' = Append(diag, Log("INFO", "Templates loaded successfully.", <<>>))
          /\ pc' = "main"
          /\ UNCHANGED rejection
     \/ /\ Reject(<<>>, Failure("loadTemplates", <<>>))
        /\ UNCHANGED templates
  /\ UNCHANGED <<api, pathsByTag, files, cursor, sanitizeVars, mergeVars, propVars>>

\* lines 240-247
LoadTemplates ==
  /\ pc = "load"
  /\ \/ \E loaded \in SUBSET TemplateNames :
          /\ templates' = loaded
          /\ diag' = Append(diag, Log("INFO", "Templates loaded successfully.", <<>>))
          /\ pc' = "main"
          /\ UNCHANGED rejection
     \/ /\ Reject(<<ErrorLog("Failed to load templates:", <<>>, Failure("loadTemplates", <<>>))>>,
                  Failure("loadTemplates", <<>>))
        /\ UNCHANGED templates
  /\ UNCHANGED <<api, pathsByTag, files, cursor, sanitizeVars, mergeVars, propVars>>

\* one of the three top-level blocks, lines 249-283
TopLevel(at, template, path, generating, failing, next) ==
  /\ pc = at
  /\ IF template \in templates
       THEN \/ /\ files' = Append(files, Written(template, <<>>, path, Render(template, api)))
               /\ diag' = Append(diag, Log("INFO", generating, <<>>))
               /\ pc' = next
               /\ UNCHANGED rejection
            \/ /\ Reject(<<Log("INFO", generating, <<>>),
                           ErrorLog(failing, <<>>, Failure(template, <<>>))>>,
                         Failure(template, <<>>))
               /\ UNCHANGED files
       ELSE /\ pc' = next
            /\ UNCHANGED <<files, diag, rejection>>
  /\ UNCHANGED <<api, pathsByTag, templates, cursor, sanitizeVars, mergeVars, propVars>>

GenerateMain ==
  TopLevel("main", "main", MainPath,
           "Generating main.py...", "Error generating main.py:", "requirements")

GenerateRequirements ==
  TopLevel("requirements", "requirements", RequirementsPath,
           "Generating requirements.txt...", "Error generating requirements.txt:", "readme")

GenerateReadme ==
  TopLevel("readme", "README", ReadmePath,
           "Generating README.md...", "Error generating README.md:", "schemas")

\* the render and write of one entity's file, and the end of the loop body
EmitModel(schemaName, template, context, logged, failing, named) ==
  \/ /\ files' = Append(files, Written("model", schemaName, ModelPath(schemaName),
                                       Render(template, context)))
     /\ diag' = diag \o logged
     /\ cursor' = cursor + 1
     /\ UNCHANGED <<pc, rejection>>
  \/ /\ Reject(logged \o <<ErrorLog(failing, named, Failure(template, schemaName))>>,
               Failure(template, schemaName))
     /\ UNCHANGED <<files, cursor>>

\* the end of the loop body when the entity's template is absent
NoModel(logged) ==
  /\ diag' = diag \o logged
  /\ cursor' = cursor + 1
  /\ UNCHANGED <<pc, rejection, files>>

\* mutant of entityBranch: the union marker is not looked at
entityBranch_unionNotDetected(sch) ==
  IF "properties" \in DOMAIN sch THEN "object" ELSE "empty"

\* the branch an entity takes by its resolved schema: if (sch.xOneOfUnion)
\* ... continue, if (sch.properties) ..., else ...
entityBranch(sch) ==
  IF "xOneOfUnion" \in DOMAIN sch THEN "union"
  ELSE IF "properties" \in DOMAIN sch THEN "object"
  ELSE "empty"

\* one pass of the schema loop, lines 286-381
ProcessSchema ==
  /\ pc = "schemas"
  /\ cursor \in DOMAIN schemasOf(api)
  /\ LET comps == schemasOf(api)
         schemaName == comps[cursor][1]
         sch == mergeComplexSchema(comps[cursor][2], comps)
         warning == Log("WARN", "has no properties; creating empty model.", schemaName)
     IN  IF IsThrown(sch)
           THEN Reject(<<>>, sch) /\ UNCHANGED <<files, cursor>>
         ELSE IF entityBranch(sch) = "union"
           THEN IF "one_of_union" \in templates
                  THEN EmitModel(schemaName, "one_of_union",
                                 [name |-> schemaName,
                                  unionTypes |-> sch.xOneOfUnion],
                                 <<>>, "Error generating oneOf union model:", <<>>)
                  ELSE NoModel(<<>>)
         ELSE IF entityBranch(sch) = "object"
           THEN IF "model_class" \in templates
                  THEN EmitModel(schemaName, "model_class", modelContext(schemaName, sch),
                                 <<Log("INFO", "Rendering model_class template for:", schemaName)>>,
                                 "Error generating model for", <<schemaName>>)
                  ELSE NoModel(<<>>)
         ELSE IF "model_class" \in templates
           THEN EmitModel(schemaName, "model_class",
                          [name |-> schemaName, schema |-> sch,
                           importsList |-> <<>>, createdEnums |-> <<>>],
                          <<warning>>, "Error generating empty model for", <<schemaName>>)
           ELSE NoModel(<<warning>>)
  /\ UNCHANGED <<api, pathsByTag, templates, sanitizeVars, mergeVars, propVars>>

\* lines 383-396 and 410-414: the grouping, or the skip of the route stage
GenerateRoutes ==
  /\ pc = "schemas"
  /\ cursor \notin DOMAIN schemasOf(api)
  /\ IF "paths" \in DOMAIN api /\ "api_routes" \in templates
       THEN LET grouping == groupOperations(api.paths)
            IN  /\ pathsByTag' = grouping.groups
                /\ IF grouping.error # NoError
                     THEN /\ Reject(<<Log("INFO", "Generating route files...", <<>>)>>,
                                    grouping.error)
                          /\ UNCHANGED cursor
                     ELSE /\ diag' = Append(diag, Log("INFO", "Generating route files...", <<>>))
                          /\ pc' = "routes"
                          /\ cursor' = 1
                          /\ UNCHANGED rejection
       ELSE /\ diag' = diag \o <<Log("INFO", "No paths or no api_routes template. Skipping routes.", <<>>),
                                 Complete>>
            /\ pc' = "done"
            /\ UNCHANGED <<pathsByTag, rejection, cursor>>
  /\ UNCHANGED <<api, templates, files, sanitizeVars, mergeVars, propVars>>

\* mutant of WriteRouteFile: a failure removes the files written so far
WriteRouteFile_rollback ==
  /\ pc = "routes"
  /\ cursor \in DOMAIN pathsByTag
  /\ LET tag == pathsByTag[cursor][1]
         operations == pathsByTag[cursor][2]
     IN  \/ /\ files' = Append(files, Written("route", tag, RoutePath(tag),
                                              Render("api_routes",
                                                     [tag |-> tag, operations |-> operations])))
            /\ cursor' = cursor + 1
            /\ UNCHANGED <<pc, diag, rejection>>
         \/ /\ Reject(<<ErrorLog("Error generating routes for tag", <<tag>>, Failure("api_routes", tag))>>,
                      Failure("api_routes", tag))
            /\ files' = <<>>
            /\ UNCHANGED cursor
  /\ UNCHANGED <<api, pathsByTag, templates, sanitizeVars, mergeVars, propVars>>

\* one pass of the route loop, lines 398-407
WriteRouteFile ==
  /\ pc = "routes"
  /\ cursor \in DOMAIN pathsByTag
  /\ LET tag == pathsByTag[cursor][1]
         operations == pathsByTag[cursor][2]
     IN  \/ /\ files' = Append(files, Written("route", tag, RoutePath(tag),
                                              Render("api_routes",
                                                     [tag |-> tag, operations |-> operations])))
            /\ cursor' = cursor + 1
            /\ UNCHANGED <<pc, diag, rejection>>
         \/ /\ Reject(<<ErrorLog("Error generating routes for tag", <<tag>>, Failure("api_routes", tag))>>,
                      Failure("api_routes", tag))
            /\ UNCHANGED <<files, cursor>>
  /\ UNCHANGED <<api, pathsByTag, templates, sanitizeVars, mergeVars, propVars>>

\* generateAggregatorFile, lines 211-228, and the end of generate, line 414
GenerateAggregatorFile ==
  /\ pc = "routes"
  /\ cursor \notin DOMAIN pathsByTag
  /\ IF pathsByTag = <<>>
       THEN /\ diag' = diag \o <<Log("INFO", "No tagged paths found. Skipping aggregator file.", <<>>),
                                 Complete>>
            /\ pc' = "done"
            /\ UNCHANGED <<files, rejection>>
       ELSE \/ /\ files' = Append(files, Written("aggregator", <<>>, AggregatorPath,
                                                 aggregatorContent(pathsByTag)))
               /\ diag' = diag \o <<Log("INFO", "Generating aggregator file for multiple tags...", <<>>),
                                    Complete>>
               /\ pc' = "done"
               /\ UNCHANGED rejection
            \/ /\ Reject(<<Log("INFO", "Generating aggregator file for multiple tags...", <<>>)>>,
                         Failure("aggregator", <<>>))
               /\ UNCHANGED files
  /\ UNCHANGED <<api, pathsByTag, templates, cursor, sanitizeVars, mergeVars, propVars>>

(***************************************************************************)
(* Spec: one run of generate on a bounded API description.                  *)
(***************************************************************************)
MaxEntities == 2

NameLowerA == <<"a">>

\* a union, an object shape, a schema without properties
RunSchemas == {[oneOf |-> <<Ref(NameA), PlainX>>], PlainX, NoKeys}

RunNames == <<NameA, NameLowerA, NameB>>

\* the schemas objects of at most MaxEntities entities: a choice of names in
\* the order of RunNames, each with a schema
RunSchemaTables ==
  UNION {[1..Len(names) -> RunSchemas] \X {names} :
           names \in {Restrict(RunNames, S) :
                        S \in {T \in SUBSET Range(RunNames) : Cardinality(T) <= MaxEntities}}}

TableOf(shapes, names) == [i \in DOMAIN names |-> <<names[i], shapes[i]>>]

\* the paths objects of the runs: none, the empty object, a path item with a
\* non-object node only, two tags over two paths, two index-like tags created
\* in descending order, tags that differ in case only, an absent and an empty
\* tag list, a tag that Object.prototype provides
RunPaths ==
  { <<>>,
    BuildPaths(<< <<Null, TRUE>> >>),
    BuildPaths(<< <<[tags |-> <<TagP>>], TRUE>>, <<[tags |-> <<TagP>>], FALSE>>,
                  <<[tags |-> <<TagU>>], TRUE>> >>),
    BuildPaths(<< <<[tags |-> <<TagP>>], TRUE>>, <<[tags |-> <<TagTwo>>], TRUE>>,
                  <<[tags |-> <<TagOne>>], TRUE>> >>),
    BuildPaths(<< <<[tags |-> <<TagP>>], TRUE>>, <<[tags |-> <<<<"P">>>>], TRUE>> >>),
    BuildPaths(<< <<[operationId |-> "op"], TRUE>>, <<[tags |-> <<>>], TRUE>> >>),
    BuildPaths(<< <<[tags |-> <<TagConstructor>>], TRUE>> >>),
    BuildPaths(<< <<[tags |-> <<TagU>>], TRUE>>, <<[tags |-> <<TagConstructor>>], TRUE>> >>) }

RunApis ==
  {c @@ p :
     c \in {NoKeys, [components |-> NoKeys]}
           \cup {[components |-> [schemas |-> TableOf(st[1], st[2])]] : st \in RunSchemaTables}
           \cup {[components |-> [schemas |-> << <<NameA, PlainX>>, <<NameB, [allOf |-> <<Ref(NameA), Ref(NameZ)>>]>> >>]]},
     p \in {NoKeys} \cup {[paths |-> q] : q \in RunPaths}}

Init ==
  /\ pc = "start"
  /\ api \in RunApis
  /\ templates = {}
  /\ files = <<>>
  /\ diag = <<>>
  /\ cursor = 1
  /\ pathsByTag = <<>>
  /\ rejection = NoError
  /\ name = <<>> /\ safeName = <<>> /\ safeAgain = <<>>
  /\ schema = <<>> /\ resolved = <<>> /\ regrouped = <<>> /\ components = <<>>
  /\ entity = <<>> /\ processed = <<>>

Next ==
  \/ Start
  \/ LoadTemplates
  \/ GenerateMain
  \/ GenerateRequirements
  \/ GenerateReadme
  \/ ProcessSchema
  \/ GenerateRoutes
  \/ WriteRouteFile
  \/ GenerateAggregatorFile

Spec == Init /\ [][Next]_vars

(***************************************************************************)
(* The order of the writes of a run.                                        *)
(***************************************************************************)
Stage(write) ==
  CASE write.artifact = "main" -> 1
    [] write.artifact = "requirements" -> 2
    [] write.artifact = "README" -> 3
    [] write.artifact = "model" -> 4
    [] write.artifact = "route" -> 5
    [] write.artifact = "aggregator" -> 6

\* the place of an entity in the declaration order of the schemas
EntityIndex(schemaName) ==
  CHOOSE i \in DOMAIN schemasOf(api) : schemasOf(api)[i][1] = schemaName

\* the place, in the iteration order of paths and methods, of the operation
\* that created the group of a tag
FirstMember(tag) ==
  LET all == EntriesOf(api.paths)
  IN  CHOOSE p \in DOMAIN all : all[p] = ObjGetOwn(pathsByTag, tag)[1]

\* the stages follow each other, and only the model and the route stage write
\* more than one file
StagesInOrder ==
  \A i, j \in DOMAIN files :
    i < j => /\ Stage(files[i]) <= Stage(files[j])
             /\ Stage(files[i]) = Stage(files[j]) => Stage(files[i]) \in {4, 5}

ModelsInDeclarationOrder ==
  \A i, j \in DOMAIN files :
    (i < j /\ files[i].artifact = "model" /\ files[j].artifact = "model")
      => EntityIndex(files[i].key) < EntityIndex(files[j].key)

\* a run that completed wrote a file for every entity and every group whose
\* template was loaded
EveryFileWritten ==
  pc = "done" =>
    /\ {"model_class", "one_of_union"} \subseteq templates
         => {files[i].key : i \in {j \in DOMAIN files : files[j].artifact = "model"}}
              = Range(ObjKeys(schemasOf(api)))
    /\ ("paths" \in DOMAIN api /\ "api_routes" \in templates)
         => {files[i].key : i \in {j \in DOMAIN files : files[j].artifact = "route"}}
              = Range(ObjKeys(pathsByTag))

\* C9 as stated: the writes of a run happen in the order main, requirements,
\* README, the model files in the declaration order of the entities, the
\* route files in the order in which the groups were created, the aggregator
\* file last.
C9_WritesInCreationOrder ==
  /\ StagesInOrder
  /\ ModelsInDeclarationOrder
  /\ EveryFileWritten
  /\ \A i, j \in DOMAIN files :
       (i < j /\ files[i].artifact = "route" /\ files[j].artifact = "route")
         => FirstMember(files[i].key) < FirstMember(files[j].key)

\* C9 amended: the writes of a run happen in the order main, requirements,
\* README, the model files in the declaration order of the entities, the
\* route files in the enumeration order of the group mapping (the groups
\* whose tag is an array index first, in ascending numeric order, then the
\* other groups in the order of their creation), the aggregator file last.
C9_WritesInEnumerationOrder ==
  /\ StagesInOrder
  /\ ModelsInDeclarationOrder
  /\ EveryFileWritten
  /\ \A i, j \in DOMAIN files :
       (i < j /\ files[i].artifact = "route" /\ files[j].artifact = "route")
         => IF IsArrayIndex(files[i].key)
              THEN IsArrayIndex(files[j].key) => IndexLess(files[i].key, files[j].key)
              ELSE /\ ~IsArrayIndex(files[j].key)
                   /\ FirstMember(files[i].key) < FirstMember(files[j].key)

\* a completed run that wrote the three top-level files, two model files,
\* the aggregator, and the route file of an index tag before the route file
\* of a group created earlier
C9_Witness ==
  /\ pc = "done"
  /\ {files[i].artifact : i \in DOMAIN files}
       = {"main", "requirements", "README", "model", "route", "aggregator"}
  /\ Cardinality({i \in DOMAIN files : files[i].artifact = "model"}) >= 2
  /\ \E i, j \in DOMAIN files :
       /\ i < j
       /\ files[i].artifact = "route" /\ files[j].artifact = "route"
       /\ IsArrayIndex(files[i].key) /\ ~IsArrayIndex(files[j].key)
       /\ FirstMember(files[j].key) < FirstMember(files[i].key)

\* the run has ended and no collaborator (directory creation, template
\* loading, rendering, writing) and no schema resolution has failed
EndedWithoutOutsideFailure ==
  \/ pc = "done"
  \/ /\ pc = "rejected"
     /\ "thrown" \in DOMAIN rejection
     /\ \E i \in DOMAIN diag : diag[i].message = "Generating route files..."

LinesOf(content, kind) ==
  LET picked == Restrict(content, {l \in Range(content) : l.kind = kind})
  IN  [i \in DOMAIN picked |-> picked[i].safeTag]

\* C10 as stated: the aggregator file is written iff there are a paths
\* collection and the api_routes template and at least one group was formed;
\* it holds one import line and one registration line per group; with zero
\* groups, or without paths or template, no route file and no aggregator file
\* is written and the run ends without error.
C10_AggregatorIffGroups ==
  EndedWithoutOutsideFailure =>
    LET routeStage == "paths" \in DOMAIN api /\ "api_routes" \in templates
        aggregators == {i \in DOMAIN files : files[i].artifact = "aggregator"}
        safeTags == [g \in DOMAIN pathsByTag |-> toLowerCase(pathsByTag[g][1])]
    IN  /\ (aggregators # {}) <=> (routeStage /\ pathsByTag # <<>>)
        /\ \A i \in aggregators :
             /\ files[i].path = AggregatorPath
             /\ LinesOf(files[i].content, "import") = safeTags
             /\ LinesOf(files[i].content, "include_router") = safeTags
        /\ (~routeStage \/ pathsByTag = <<>>)
             => /\ \A i \in DOMAIN files : files[i].artifact \notin {"route", "aggregator"}
                /\ pc = "done"
                /\ rejection = NoError
                /\ \A i \in DOMAIN diag : diag[i].level # "ERROR"

(***************************************************************************)
(* Failures of a run.                                                       *)
(***************************************************************************)
\* C11: when loading the templates fails, the run is rejected with that
\* error, an ERROR message 'Failed to load templates' that prints it has been
\* logged, and no file has been written.
C11_TemplateLoadFailure ==
  rejection = Failure("loadTemplates", <<>>) =>
    /\ pc = "rejected"
    /\ \E i \in DOMAIN diag :
         /\ diag[i].level = "ERROR"
         /\ diag[i].message = "Failed to load templates:"
         /\ diag[i].subject.error = rejection
    /\ files = <<>>
    /\ templates = {}

\* a run has been rejected by the failure of loadTemplates
C11_Witness ==
  /\ pc = "rejected"
  /\ rejection = Failure("loadTemplates", <<>>)
  /\ Len(diag) = 3

\* the artifacts whose rendering or writing may fail
ArtifactSources == TemplateNames \cup {"aggregator"}

\* the message was logged by the handler of an artifact and its text names
\* the entity or the tag of the artifact that failed, if it has one
Identifies(message, failure) ==
  /\ message.level = "ERROR"
  /\ message.message # "Generation failed:"
  /\ message.subject.error = failure
  /\ failure.key # <<>> => failure.key \in Range(message.subject.names)

\* C12 as stated: when the rendering or writing of an artifact fails, the run
\* is rejected with that error after an ERROR message that identifies the
\* artifact has been logged.
C12_FailureNamesArtifact ==
  (pc = "rejected" /\ "thrownBy" \in DOMAIN rejection
     /\ rejection.thrownBy \in ArtifactSources) =>
    \E i \in DOMAIN diag : i < Len(diag) /\ Identifies(diag[i], rejection)

\* C13: the step in which a run fails writes no file and removes none, and no
\* step after it changes the files; every step of a run leaves the files
\* written before it as they are.
C13_NoWriteAfterFailure ==
  [][ /\ (pc = "rejected" \/ pc' = "rejected") => files' = files
      /\ Len(files') >= Len(files)
      /\ SubSeq(files', 1, Len(files)) = files ]_vars

\* a run has failed on a route file after at least three files were written
C13_Witness ==
  /\ pc = "rejected"
  /\ "thrownBy" \in DOMAIN rejection
  /\ rejection.thrownBy = "api_routes"
  /\ Len(files) >= 3

(***************************************************************************)
(* The model files of a run.                                                *)
(***************************************************************************)
\* the content of the file at a path after the writes: that of the last write
OnDisk(path) ==
  LET writes == {i \in DOMAIN files : files[i].path = path}
  IN  files[CHOOSE i \in writes : \A j \in writes : j <= i]

ModelPaths == {files[i].path : i \in {j \in DOMAIN files : files[j].artifact = "model"}}

\* C17 as stated: after a successful run with the model_class and the
\* one_of_union template, the models directory holds one file per entity, at
\* models/<lower-cased name>.py, and the file of an entity is not another
\* entity's.
C17_OneModelFilePerEntity ==
  (pc = "done" /\ {"model_class", "one_of_union"} \subseteq templates) =>
    LET names == ObjKeys(schemasOf(api))
    IN  /\ ModelPaths = {ModelPath(names[i]) : i \in DOMAIN names}
        /\ Cardinality(ModelPaths) = Len(names)
        /\ \A i \in DOMAIN names : OnDisk(ModelPath(names[i])).key = names[i]

\* the entities the schema loop has gone through
EntitiesDone ==
  IF pc = "schemas" THEN 1..(cursor - 1)
  ELSE IF pc \in {"routes", "done"} THEN DOMAIN schemasOf(api)
  ELSE {}

\* C18: an entity takes one branch.  A union-shaped entity is rendered with
\* one_of_union only, and without that template nothing is written for it and
\* the loop goes on; an entity with properties is rendered with model_class
\* with its processed properties; an entity without properties is rendered
\* with model_class with empty import and enum lists after a WARN message.
C18_OneBranchPerEntity ==
  \A i \in EntitiesDone :
    LET comps == schemasOf(api)
        n == comps[i][1]
        sch == mergeComplexSchema(comps[i][2], comps)
        writes == {j \in DOMAIN files : files[j].artifact = "model" /\ files[j].key = n}
        warned == \E j \in DOMAIN diag : diag[j].level = "WARN" /\ diag[j].subject = n
        template == IF "xOneOfUnion" \in DOMAIN sch THEN "one_of_union" ELSE "model_class"
    IN  /\ Cardinality(writes) = IF template \in templates THEN 1 ELSE 0
        /\ \A j \in writes :
             LET content == files[j].content
             IN  /\ content.template = template
                 /\ content.context.name = n
                 /\ IF "xOneOfUnion" \in DOMAIN sch
                      THEN content.context = [name |-> n, unionTypes |-> sch.xOneOfUnion]
                    ELSE IF "properties" \in DOMAIN sch
                      THEN /\ ObjKeys(content.context.schema.processedProperties)
                                = Dedupe([k \in DOMAIN sch.properties |->
                                            sanitizeName(sch.properties[k][1])])
                           /\ content.context.schema.properties = sch.properties
                    ELSE /\ content.context.importsList = <<>>
                         /\ content.context.createdEnums = <<>>
                         /\ content.context.schema = sch
        /\ warned <=> ("xOneOfUnion" \notin DOMAIN sch /\ "properties" \notin DOMAIN sch)
        /\ \A j \in DOMAIN diag : diag[j].level # "ERROR"

\* with model_class and without one_of_union, a run has completed in which a
\* union-shaped entity came first and an entity with properties after it:
\* only the second one has a file
C18_Witness ==
  /\ pc = "done"
  /\ "model_class" \in templates /\ "one_of_union" \notin templates
  /\ Len(schemasOf(api)) = 2
  /\ "xOneOfUnion" \in DOMAIN mergeComplexSchema(schemasOf(api)[1][2], schemasOf(api))
  /\ \E j \in DOMAIN files :
       /\ files[j].key = schemasOf(api)[2][1]
       /\ files[j].content.template = "model_class"
       /\ "processedProperties" \in DOMAIN files[j].content.context.schema
       /\ files[j].content.context.schema.processedProperties # <<>>
  /\ \A j \in DOMAIN files : files[j].key # schemasOf(api)[1][1]

====
